---------------------------- MODULE Spec2Model ----------------------------
(***************************************************************************)
(* job-status-listener (src/main.go): HTTP handlers that validate a job    *)
(* status report, build an UpdateMessage and hand it to a shared           *)
(* JobUpdatePublisher through update(), which publishes, and on failure    *)
(* reconnects once and publishes once more.                                *)
(*                                                                         *)
(* Conventions of the model:                                               *)
(*   - a Go pointer or error value is a sequence: <<>> is nil, <<v>> is a  *)
(*     non-nil value v;                                                    *)
(*   - the State string of a request is a sequence of characters, so that  *)
(*     strings.ToLower is computed character by character; the other       *)
(*     fields, which the code only copies, are TLA+ strings;               *)
(*   - each request is served by its own goroutine (net/http); a handler   *)
(*     is cut into steps at the calls it makes on the publisher, which is  *)
(*     where goroutines interleave;                                        *)
(*   - log.Fatal is os.Exit(1): the process stops, deferred calls do not   *)
(*     run, no goroutine takes another step;                               *)
(*   - publisher is main's publisher value: "none" before it is created,   *)
(*     "open" once created, "closed" once Close has been called on it;     *)
(*   - connFailed records the history of the calls made on the publisher:  *)
(*     a call on it has failed and no Reconnect has succeeded since;       *)
(*   - mapped holds an input of getState and its result, for the           *)
(*     specification that applies getState alone.                          *)
(***************************************************************************)
EXTENDS Naturals, Sequences, FiniteSets

VARIABLES mainPc, req, publisher, connFailed, mapped

vars == <<mainPc, req, publisher, connFailed, mapped>>

(***************************************************************************)
(* Bounds                                                                  *)
(***************************************************************************)
\* Number of requests the server receives in one run (all may be concurrent).
MaxReq == 3
\* Number of requests received one after the other when bodies of every
\* shape are sent (at most MaxReq).
MaxFieldReq == 2

\* Number of concurrent requests when the calls on the publisher are
\* required to return (at most MaxReq).
MaxLiveReq == 2

Reqs == 1..MaxReq
FieldReqs == 1..MaxFieldReq
LiveReqs == 1..MaxLiveReq

(***************************************************************************)
(* Strings                                                                 *)
(***************************************************************************)
\* The letters strings.ToLower changes in the words getState compares with:
\* A-Z and U+0130 (capital I with a dot above, written "I_dot"), which
\* unicode.ToLower maps to "i".
Upper == <<"A","B","C","D","E","F","G","H","I","J","K","L","M",
           "N","O","P","Q","R","S","T","U","V","W","X","Y","Z","I_dot">>
Lower == <<"a","b","c","d","e","f","g","h","i","j","k","l","m",
           "n","o","p","q","r","s","t","u","v","w","x","y","z","i">>

\* unicode.ToLower on the upper-case letters
LowerOf == [c \in {Upper[i] : i \in 1..Len(Upper)} |->
               Lower[CHOOSE i \in 1..Len(Upper) : Upper[i] = c]]

ToLowerChar(c) == IF c \in DOMAIN LowerOf THEN LowerOf[c] ELSE c

\* strings.ToLower left out: the string is compared as it was sent.
Mut_ToLower_Identity(s) == s

\* strings.ToLower
ToLower(s) == [i \in 1..Len(s) |-> ToLowerChar(s[i])]

S_submitted == <<"s","u","b","m","i","t","t","e","d">>
S_running   == <<"r","u","n","n","i","n","g">>
S_completed == <<"c","o","m","p","l","e","t","e","d">>
S_succeeded == <<"s","u","c","c","e","e","d","e","d">>
S_failed    == <<"f","a","i","l","e","d">>

\* messaging.JobState values
SubmittedState == "Submitted"
RunningState   == "Running"
SucceededState == "Succeeded"
FailedState    == "Failed"
JobStates == {SubmittedState, RunningState, SucceededState, FailedState}

(***************************************************************************)
(* Errors                                                                  *)
(***************************************************************************)
\* An error value: its kind, the call that produced it (request, number of
\* the call among the request's publisher calls) and, for fmt.Errorf's
\* "Unknown job state: %s", the string it carries.
Err(kind, r, n, input) == [kind |-> kind, req |-> r, n |-> n, input |-> input]

\* json.Decoder.Decode's error on a body that is not a JSON object
DecodeErr == Err("decode", 0, 0, <<>>)

\* fmt.Errorf("Unknown job state: %s", state)
UnknownStateErr(state) == Err("unknown job state", 0, 0, state)

(***************************************************************************)
(* getState                                                                *)
(***************************************************************************)
getState(state) ==
    LET l == ToLower(state) IN
    CASE l = S_submitted -> [state |-> SubmittedState, err |-> <<>>]
      [] l = S_running   -> [state |-> RunningState,   err |-> <<>>]
      [] l = S_completed -> [state |-> SucceededState, err |-> <<>>]
      [] l = S_succeeded -> [state |-> SucceededState, err |-> <<>>]
      [] l = S_failed    -> [state |-> FailedState,    err |-> <<>>]
      [] OTHER           -> [state |-> "", err |-> <<UnknownStateErr(state)>>]

(***************************************************************************)
(* Request bodies and their decoding                                       *)
(***************************************************************************)
\* A body is either not a JSON object (ok = FALSE) or an object in which
\* each key is absent (<<>>) or present with a string value (<<v>>).
Opt(S) == {<<>>} \cup {<<v>> : v \in S}

UUIDs     == {"11111111-1111-1111-1111-111111111111"}
Hostnames == {"h1"}
Messages  == {"started"}
StateInputs == {<<"R","u","n","n","i","n","g">>,
                <<"p","e","n","d","i","n","g">>}

MalformedBody == [ok |-> FALSE, job_uuid |-> <<>>, Hostname |-> <<>>,
                  Message |-> <<>>, State |-> <<>>]

ObjectBodies == [ok : {TRUE}, job_uuid : Opt(UUIDs), Hostname : Opt(Hostnames),
                 Message : Opt(Messages), State : Opt(StateInputs)]

\* Bodies sent to POST /{uuid}/status: MessagePost has no job_uuid field.
SingleBodies == {MalformedBody} \cup {b \in ObjectBodies : b.job_uuid = <<>>}
\* Bodies sent to POST /status/batch.
BatchBodies == {MalformedBody} \cup ObjectBodies

\* The bodies among them that are malformed or hold every key of the
\* target structure.
CompleteSingleBodies ==
    {b \in SingleBodies : b.ok => <<>> \notin {b.Hostname, b.Message, b.State}}
CompleteBatchBodies ==
    {b \in BatchBodies :
        b.ok => <<>> \notin {b.job_uuid, b.Hostname, b.Message, b.State}}

\* The value encoding/json leaves in a string field: the key's value, or
\* the zero value "" when the key is absent.
StringField(f) == IF f = <<>> THEN "" ELSE f[1]
\* The same for the State field, a sequence of characters.
CharsField(f) == IF f = <<>> THEN <<>> ELSE f[1]

\* var updateMessage MessagePost; json.NewDecoder(r.Body).Decode(&updateMessage)
DecodeMessagePost(body) ==
    IF ~body.ok
    THEN [err |-> <<DecodeErr>>,
          val |-> [Hostname |-> "", Message |-> "", State |-> <<>>]]
    ELSE [err |-> <<>>,
          val |-> [Hostname |-> StringField(body.Hostname),
                   Message  |-> StringField(body.Message),
                   State    |-> CharsField(body.State)]]

\* DecodeMessagePostWithUUIDs with every key required: a body lacking one
\* fails to decode.
Mut_DecodeMessagePostWithUUIDs_Required(body) ==
    IF \/ ~body.ok
       \/ <<>> \in {body.job_uuid, body.Hostname, body.Message, body.State}
    THEN [err |-> <<DecodeErr>>,
          val |-> [JobUUID |-> "", Hostname |-> "", Message |-> "", State |-> <<>>]]
    ELSE [err |-> <<>>,
          val |-> [JobUUID  |-> body.job_uuid[1],
                   Hostname |-> body.Hostname[1],
                   Message  |-> body.Message[1],
                   State    |-> body.State[1]]]

\* var updateMessage MessagePostWithUUIDs; ...Decode(&updateMessage)
DecodeMessagePostWithUUIDs(body) ==
    IF ~body.ok
    THEN [err |-> <<DecodeErr>>,
          val |-> [JobUUID |-> "", Hostname |-> "", Message |-> "", State |-> <<>>]]
    ELSE [err |-> <<>>,
          val |-> [JobUUID  |-> StringField(body.job_uuid),
                   Hostname |-> StringField(body.Hostname),
                   Message  |-> StringField(body.Message),
                   State    |-> CharsField(body.State)]]

(***************************************************************************)
(* The HTTP response of a request                                          *)
(***************************************************************************)
NoResponse == [status |-> 0, body |-> <<>>]

\* w.WriteHeader(code)
WriteHeader(resp, code) ==
    [resp EXCEPT !.status = IF resp.status = 0 THEN code ELSE resp.status]

\* out.Encode(v): the first write sends status 200 unless a header was written
Encode(resp, v) ==
    [status |-> IF resp.status = 0 THEN 200 ELSE resp.status,
     body   |-> Append(resp.body, v)]

\* map[string]string{"error": err.Error()}
ErrorJSON(e) == [error |-> <<e>>, message |-> <<>>]
\* the JSON of a *messaging.UpdateMessage (<<>>: null)
MessageJSON(m) == [error |-> <<>>, message |-> m]

(***************************************************************************)
(* The publisher (JobUpdatePublisher), seen from its callers               *)
(***************************************************************************)
\* What PublishJobUpdate may return to the n-th publisher call of request r.
PublishOutcomes(r, n) == {<<>>, <<Err("publish", r, n, <<>>)>>}
\* What Reconnect may return.
ReconnectOutcomes(r, n) == {<<>>, <<Err("reconnect", r, n, <<>>)>>}

\* The publisher call of request record q that has not returned yet.
InFlight(q) ==
    IF Len(q.calls) > Len(q.results) THEN q.calls[Len(q.calls)].op ELSE "none"

\* q with one more call made on the publisher
Call(q, op, m) == [q EXCEPT !.calls = Append(@, [op |-> op, msg |-> m])]
\* q with the result of its call in flight
Return(q, err) == [q EXCEPT !.results = Append(@, err)]

\* Whether the connection is known to have failed after a call op on the
\* publisher has returned err: a failed call leaves it failed, and only a
\* Reconnect that succeeds makes it usable again.
ConnAfter(failed, op, err) ==
    IF op = "reconnect" THEN err # <<>> ELSE failed \/ err # <<>>

NPublish(q)   == Cardinality({i \in 1..Len(q.calls) : q.calls[i].op = "publish"})
NReconnect(q) == Cardinality({i \in 1..Len(q.calls) : q.calls[i].op = "reconnect"})

(***************************************************************************)
(* update                                                                  *)
(***************************************************************************)
\* UpdateMessage with hostname and msg taken for one another.
Mut_UpdateMessage_Swapped(state, jobID, hostname, msg) ==
    [InvocationID |-> jobID, State |-> state, Message |-> hostname, Sender |-> msg]

\* &messaging.UpdateMessage{Job: &model.Job{InvocationID: jobID}, ...}
UpdateMessage(state, jobID, hostname, msg) ==
    [InvocationID |-> jobID, State |-> state, Message |-> msg, Sender |-> hostname]

\* update, up to its first call of PublishJobUpdate
updateBegin(q, state, jobID, hostname, msg) ==
    LET m == <<UpdateMessage(state, jobID, hostname, msg)>> IN
    [q   |-> Call([q EXCEPT !.pc = "publish1", !.msg = m], "publish", m),
     ret |-> <<>>]

\* updateAfterPublish1 with the test of err dropped: reconnects even after a
\* publish that succeeded.
Mut_updateAfterPublish1_AlwaysReconnect(q, err) ==
    [q |-> Call([q EXCEPT !.pc = "reconnect"], "reconnect", <<>>), ret |-> <<>>]

\* updateAfterPublish1 with reconnects coalesced: an update whose first
\* publish failed makes no Reconnect call of its own while another update's
\* Reconnect is in flight, and goes on to publish again.
Mut_updateAfterPublish1_Coalesce(q, err) ==
    IF err = <<>>
    THEN [q |-> q, ret |-> <<[msg |-> q.msg, err |-> <<>>]>>]
    ELSE IF \E p \in Reqs : InFlight(req[p]) = "reconnect"
    THEN [q |-> Call([q EXCEPT !.pc = "publish2"], "publish", q.msg),
          ret |-> <<>>]
    ELSE [q |-> Call([q EXCEPT !.pc = "reconnect"], "reconnect", <<>>),
          ret |-> <<>>]

\* update, from the return of the first publish to its return or its call
\* of Reconnect
updateAfterPublish1(q, err) ==
    IF err = <<>>
    THEN [q |-> q, ret |-> <<[msg |-> q.msg, err |-> <<>>]>>]
    ELSE [q |-> Call([q EXCEPT !.pc = "reconnect"], "reconnect", <<>>),
          ret |-> <<>>]

\* updateAfterReconnect with Reconnect's error ignored: publishes again on
\* a connection that was not reestablished.
Mut_updateAfterReconnect_IgnoreErr(q, err) ==
    [q |-> Call([q EXCEPT !.pc = "publish2"], "publish", q.msg), ret |-> <<>>]

\* updateAfterReconnect returning the first publish's error when Reconnect
\* fails.
Mut_updateAfterReconnect_PublishErr(q, err) ==
    IF err # <<>>
    THEN [q |-> q, ret |-> <<[msg |-> <<>>, err |-> q.results[1]]>>]
    ELSE [q |-> Call([q EXCEPT !.pc = "publish2"], "publish", q.msg),
          ret |-> <<>>]

\* update, from the return of Reconnect to its return or its second call
\* of PublishJobUpdate
updateAfterReconnect(q, err) ==
    IF err # <<>>
    THEN [q |-> q, ret |-> <<[msg |-> <<>>, err |-> err]>>]
    ELSE [q |-> Call([q EXCEPT !.pc = "publish2"], "publish", q.msg),
          ret |-> <<>>]

\* updateAfterPublish2 publishing once more when the second publish fails.
Mut_updateAfterPublish2_Retry(q, err) ==
    IF err = <<>>
    THEN [q |-> q, ret |-> <<[msg |-> q.msg, err |-> <<>>]>>]
    ELSE IF NPublish(q) < 3
    THEN [q |-> Call(q, "publish", q.msg), ret |-> <<>>]
    ELSE [q |-> q, ret |-> <<[msg |-> <<>>, err |-> err]>>]

\* updateAfterPublish2 testing the first publish's error instead of the
\* second's: it gives up although the second publish succeeded.
Mut_updateAfterPublish2_StaleTest(q, err) ==
    IF q.results[1] = <<>>
    THEN [q |-> q, ret |-> <<[msg |-> q.msg, err |-> <<>>]>>]
    ELSE [q |-> q, ret |-> <<[msg |-> <<>>, err |-> q.results[1]]>>]

\* updateAfterPublish2 returning the first publish's error when the second
\* publish fails.
Mut_updateAfterPublish2_FirstErr(q, err) ==
    IF err = <<>>
    THEN [q |-> q, ret |-> <<[msg |-> q.msg, err |-> <<>>]>>]
    ELSE [q |-> q, ret |-> <<[msg |-> <<>>, err |-> q.results[1]]>>]

\* updateAfterPublish2 looping: when the second publish fails it goes back
\* to Reconnect and tries again, until a publish succeeds (the calls kept are
\* those of the last round).
Mut_updateAfterPublish2_Loop(q, err) ==
    IF err = <<>>
    THEN [q |-> q, ret |-> <<[msg |-> q.msg, err |-> <<>>]>>]
    ELSE [q |-> [q EXCEPT !.pc = "reconnect",
                          !.calls = <<q.calls[1], [op |-> "reconnect", msg |-> <<>>]>>,
                          !.results = <<q.results[1]>>],
          ret |-> <<>>]

\* updateAfterPublish2 returning the message along with the error when the
\* second publish fails.
Mut_updateAfterPublish2_MsgWithErr(q, err) ==
    [q |-> q, ret |-> <<[msg |-> q.msg, err |-> err]>>]

\* update, from the return of the second publish to its return
updateAfterPublish2(q, err) ==
    IF err = <<>>
    THEN [q |-> q, ret |-> <<[msg |-> q.msg, err |-> <<>>]>>]
    ELSE [q |-> q, ret |-> <<[msg |-> <<>>, err |-> err]>>]

(***************************************************************************)
(* The handlers                                                            *)
(***************************************************************************)
\* Reject without w.WriteHeader: the error body goes out with status 200.
Mut_Reject_NoHeader(q, e) ==
    [q EXCEPT !.pc = "done", !.resp = Encode(q.resp, ErrorJSON(e))]

\* The handlers' answer to a decode or state error: 400, the error, return.
Reject(q, e) ==
    [q EXCEPT !.pc = "done",
              !.resp = Encode(WriteHeader(q.resp, 400), ErrorJSON(e))]

\* postUpdateReturn without log.Fatal: the handler answers 400, goes on to
\* encode the nil message and returns; the process keeps serving.
Mut_postUpdateReturn_KeepServing(q, ret) ==
    IF ret.err # <<>>
    THEN [q    |-> [q EXCEPT !.pc = "done", !.ret = <<ret>>,
                             !.resp = Encode(Encode(WriteHeader(q.resp, 400),
                                                    ErrorJSON(ret.err[1])),
                                             MessageJSON(ret.msg))],
          exit |-> FALSE]
    ELSE [q    |-> [q EXCEPT !.pc = "done", !.ret = <<ret>>,
                             !.resp = Encode(q.resp, MessageJSON(ret.msg))],
          exit |-> FALSE]

\* postUpdate, after update has returned ret
postUpdateReturn(q, ret) ==
    IF ret.err # <<>>
    THEN [q    |-> [q EXCEPT !.pc = "fatal", !.ret = <<ret>>,
                             !.resp = Encode(WriteHeader(q.resp, 400),
                                             ErrorJSON(ret.err[1]))],
          exit |-> TRUE]
    ELSE [q    |-> [q EXCEPT !.pc = "done", !.ret = <<ret>>,
                             !.resp = Encode(q.resp, MessageJSON(ret.msg))],
          exit |-> FALSE]

\* postBatchStatusReturn without log.Fatal: the handler answers 400, goes on
\* to encode the nil message and returns; the process keeps serving.
Mut_postBatchStatusReturn_KeepServing(q, ret) ==
    IF ret.err # <<>>
    THEN [q    |-> [q EXCEPT !.pc = "done", !.ret = <<ret>>,
                             !.resp = Encode(Encode(WriteHeader(q.resp, 400),
                                                    ErrorJSON(ret.err[1])),
                                             MessageJSON(ret.msg))],
          exit |-> FALSE]
    ELSE [q    |-> [q EXCEPT !.pc = "done", !.ret = <<ret>>,
                             !.resp = Encode(q.resp, MessageJSON(ret.msg))],
          exit |-> FALSE]

\* postBatchStatus, after update has returned ret
postBatchStatusReturn(q, ret) ==
    IF ret.err # <<>>
    THEN [q    |-> [q EXCEPT !.pc = "fatal", !.ret = <<ret>>,
                             !.resp = Encode(WriteHeader(q.resp, 400),
                                             ErrorJSON(ret.err[1]))],
          exit |-> TRUE]
    ELSE [q    |-> [q EXCEPT !.pc = "done", !.ret = <<ret>>,
                             !.resp = Encode(q.resp, MessageJSON(ret.msg))],
          exit |-> FALSE]

\* A step u of update made for request r: either update goes on (it has
\* called the publisher) or it has returned and the handler finishes.
Continue(r, u) ==
    IF u.ret = <<>>
    THEN /\ req' = [req EXCEPT ![r] = u.q]
         /\ UNCHANGED mainPc
    ELSE LET t == IF u.q.ep = "single"
                  THEN postUpdateReturn(u.q, u.ret[1])
                  ELSE postBatchStatusReturn(u.q, u.ret[1])
         IN /\ req' = [req EXCEPT ![r] = t.q]
            /\ mainPc' = IF t.exit THEN "exited" ELSE mainPc

\* postUpdateBegin without the test of getState's error: update is called
\* with the state getState returns beside its error.
Mut_postUpdateBegin_NoStateCheck(q, uuid, body) ==
    LET q0 == [q EXCEPT !.ep = "single", !.uuid = uuid, !.body = body]
        d  == DecodeMessagePost(body)
        s  == getState(d.val.State)
    IN IF d.err # <<>> THEN [q |-> Reject(q0, d.err[1]), ret |-> <<>>]
       ELSE updateBegin(q0, s.state, uuid, d.val.Hostname, d.val.Message)

\* postUpdate, from the request's arrival to its first call on the
\* publisher or its rejection
postUpdateBegin(q, uuid, body) ==
    LET q0 == [q EXCEPT !.ep = "single", !.uuid = uuid, !.body = body]
        d  == DecodeMessagePost(body)
        s  == getState(d.val.State)
    IN IF d.err # <<>> THEN [q |-> Reject(q0, d.err[1]), ret |-> <<>>]
       ELSE IF s.err # <<>> THEN [q |-> Reject(q0, s.err[1]), ret |-> <<>>]
       ELSE updateBegin(q0, s.state, uuid, d.val.Hostname, d.val.Message)

\* postBatchStatus, likewise
postBatchStatusBegin(q, body) ==
    LET q0 == [q EXCEPT !.ep = "batch", !.body = body]
        d  == DecodeMessagePostWithUUIDs(body)
        s  == getState(d.val.State)
    IN IF d.err # <<>> THEN [q |-> Reject(q0, d.err[1]), ret |-> <<>>]
       ELSE IF s.err # <<>> THEN [q |-> Reject(q0, s.err[1]), ret |-> <<>>]
       ELSE updateBegin(q0, s.state, d.val.JobUUID, d.val.Hostname, d.val.Message)

(***************************************************************************)
(* State                                                                   *)
(***************************************************************************)
NoRequest ==
    [pc |-> "none", ep |-> "none", uuid |-> "", body |-> MalformedBody,
     msg |-> <<>>, calls |-> <<>>, results |-> <<>>, ret |-> <<>>,
     resp |-> NoResponse]

\* No string has been handed to getState.
NotMapped == [in |-> <<>>, out |-> <<>>]

Init ==
    /\ mainPc = "start"
    /\ req = [r \in Reqs |-> NoRequest]
    /\ publisher = "none"
    /\ connFailed = FALSE
    /\ mapped = NotMapped

(***************************************************************************)
(* main                                                                    *)
(***************************************************************************)
\* loadConfig: configurate.Init fails => log.Fatal
loadConfig(ok) ==
    /\ mainPc = "start"
    /\ mainPc' = IF ok THEN "configured" ELSE "exited"
    /\ UNCHANGED <<req, publisher, connFailed, mapped>>

\* NewDefaultJobUpdatePublisher with its error ignored: main goes on without
\* a publisher.
Mut_NewDefaultJobUpdatePublisher_IgnoreErr(ok) ==
    /\ mainPc = "configured"
    /\ mainPc' = "connected"
    /\ publisher' = IF ok THEN "open" ELSE "none"
    /\ UNCHANGED <<req, connFailed, mapped>>

\* NewDefaultJobUpdatePublisher fails => log.Fatal
NewDefaultJobUpdatePublisher(ok) ==
    /\ mainPc = "configured"
    /\ mainPc' = IF ok THEN "connected" ELSE "exited"
    /\ publisher' = IF ok THEN "open" ELSE "none"
    /\ UNCHANGED <<req, connFailed, mapped>>

\* newRouter and http.ListenAndServe: the server starts serving, or cannot
\* listen and log.Fatal ends the process
ListenAndServe(ok) ==
    /\ mainPc = "connected"
    /\ mainPc' = IF ok THEN "serving" ELSE "exited"
    /\ UNCHANGED <<req, publisher, connFailed, mapped>>

(***************************************************************************)
(* Requests                                                                *)
(***************************************************************************)
\* Requests are numbered in their order of arrival.
Arrives(r) ==
    /\ mainPc = "serving"
    /\ req[r].pc = "none"
    /\ \A p \in Reqs : p < r => req[p].pc # "none"

\* POST /{uuid}/status arrives
postUpdate(r, uuid, body) ==
    /\ Arrives(r)
    /\ Continue(r, postUpdateBegin(req[r], uuid, body))
    /\ UNCHANGED <<publisher, connFailed, mapped>>

\* POST /status/batch arrives
postBatchStatus(r, body) ==
    /\ Arrives(r)
    /\ Continue(r, postBatchStatusBegin(req[r], body))
    /\ UNCHANGED <<publisher, connFailed, mapped>>

\* The first PublishJobUpdate of request r returns err
Publish1Returns(r, err) ==
    /\ mainPc = "serving"
    /\ req[r].pc = "publish1"
    /\ Continue(r, updateAfterPublish1(Return(req[r], err), err))
    /\ connFailed' = ConnAfter(connFailed, "publish", err)
    /\ UNCHANGED <<publisher, mapped>>

\* The Reconnect of request r returns err
ReconnectReturns(r, err) ==
    /\ mainPc = "serving"
    /\ req[r].pc = "reconnect"
    /\ Continue(r, updateAfterReconnect(Return(req[r], err), err))
    /\ connFailed' = ConnAfter(connFailed, "reconnect", err)
    /\ UNCHANGED <<publisher, mapped>>

\* The second PublishJobUpdate of request r returns err
Publish2Returns(r, err) ==
    /\ mainPc = "serving"
    /\ req[r].pc = "publish2"
    /\ Continue(r, updateAfterPublish2(Return(req[r], err), err))
    /\ connFailed' = ConnAfter(connFailed, "publish", err)
    /\ UNCHANGED <<publisher, mapped>>

\* main, up to the moment the server serves
Startup ==
    \/ \E ok \in BOOLEAN : loadConfig(ok)
    \/ \E ok \in BOOLEAN : NewDefaultJobUpdatePublisher(ok)
    \/ \E ok \in BOOLEAN : ListenAndServe(ok)

\* A call on the publisher returns to the update that made it
Returns ==
    \/ \E r \in Reqs : \E e \in PublishOutcomes(r, Len(req[r].calls)) :
          Publish1Returns(r, e)
    \/ \E r \in Reqs : \E e \in ReconnectOutcomes(r, Len(req[r].calls)) :
          ReconnectReturns(r, e)
    \/ \E r \in Reqs : \E e \in PublishOutcomes(r, Len(req[r].calls)) :
          Publish2Returns(r, e)

\* The server under concurrent requests whose bodies are malformed or hold
\* every key.
Next ==
    \/ Startup
    \/ \E r \in Reqs, u \in UUIDs, b \in CompleteSingleBodies : postUpdate(r, u, b)
    \/ \E r \in Reqs, b \in CompleteBatchBodies : postBatchStatus(r, b)
    \/ Returns

Spec == Init /\ [][Next]_vars

\* No request is being handled.
Idle == \A r \in Reqs : req[r].pc \in {"none", "done"}

\* The server under requests that arrive one after the other, with bodies
\* of every shape: any key may be absent.
NextFields ==
    \/ Startup
    \/ \E r \in FieldReqs, u \in UUIDs, b \in SingleBodies :
          Idle /\ postUpdate(r, u, b)
    \/ \E r \in FieldReqs, b \in BatchBodies : Idle /\ postBatchStatus(r, b)
    \/ Returns

SpecFields == Init /\ [][NextFields]_vars

\* The publisher call that request r has in flight returns.
CallReturns(r) ==
    \/ \E e \in PublishOutcomes(r, Len(req[r].calls)) : Publish1Returns(r, e)
    \/ \E e \in ReconnectOutcomes(r, Len(req[r].calls)) : ReconnectReturns(r, e)
    \/ \E e \in PublishOutcomes(r, Len(req[r].calls)) : Publish2Returns(r, e)

\* The server under concurrent requests, as in Next.
NextLive ==
    \/ Startup
    \/ \E r \in LiveReqs, u \in UUIDs, b \in CompleteSingleBodies :
          postUpdate(r, u, b)
    \/ \E r \in LiveReqs, b \in CompleteBatchBodies : postBatchStatus(r, b)
    \/ Returns

\* The server when every call of PublishJobUpdate and of Reconnect returns.
LiveSpec ==
    Init /\ [][NextLive]_vars /\ \A r \in LiveReqs : WF_vars(CallReturns(r))

(***************************************************************************)
(* Properties                                                              *)
(***************************************************************************)
\* update has returned to the handler of request record q
Returned(q) == q.ret # <<>>
\* the operations of q's publisher calls, in order
Ops(q) == [i \in 1..Len(q.calls) |-> q.calls[i].op]

\* C1: one update invokes reconnect at most once and publish at most twice,
\* whatever the calls return, and once update has returned the request makes
\* no further call on the publisher.
C1_BoundedRetry ==
    /\ [](\A r \in Reqs : NPublish(req[r]) <= 2 /\ NReconnect(req[r]) <= 1)
    /\ [][\A r \in Reqs : Returned(req[r]) => req'[r].calls = req[r].calls]_vars

\* An update that used its whole budget has returned and another request
\* has called the publisher.
C1_Witness ==
    \E r, p \in Reqs :
        /\ r # p
        /\ Returned(req[r])
        /\ NPublish(req[r]) = 2 /\ NReconnect(req[r]) = 1
        /\ req[p].calls # <<>>

\* C2: no publish of one request is in flight while a reconnect of another
\* request is in flight.
C2_NoPublishDuringReconnect ==
    \A r, p \in Reqs :
        r # p => ~(InFlight(req[r]) = "publish" /\ InFlight(req[p]) = "reconnect")

\* C3: first publish fails, reconnect succeeds, second publish succeeds:
\* update returns the message and no error after exactly one reconnect and
\* two publishes, and the response is the 200 success response.
C3_RetrySucceeds ==
    \A r \in Reqs :
        LET q == req[r] IN
        (/\ Len(q.results) = 3
         /\ q.results[1] # <<>> /\ q.results[2] = <<>> /\ q.results[3] = <<>>)
        => /\ q.ret = <<[msg |-> q.msg, err |-> <<>>]>>
           /\ q.msg # <<>>
           /\ Ops(q) = <<"publish", "reconnect", "publish">>
           /\ q.resp = [status |-> 200, body |-> <<MessageJSON(q.msg)>>]

C3_Witness ==
    \E r \in Reqs :
        /\ Len(req[r].results) = 3
        /\ req[r].results[1] # <<>>
        /\ req[r].results[2] = <<>>
        /\ req[r].results[3] = <<>>
        /\ req[r].resp.status = 200

\* C4: first publish fails and reconnect fails: update returns the
\* reconnect's error, not the publish's, and publish was called once.
C4_ReconnectFails ==
    \A r \in Reqs :
        LET q == req[r] IN
        (/\ Len(q.results) >= 2
         /\ q.results[1] # <<>> /\ q.results[2] # <<>>)
        => /\ q.ret = <<[msg |-> <<>>, err |-> q.results[2]]>>
           /\ q.ret[1].err[1].kind = "reconnect"
           /\ q.ret[1].err # q.results[1]
           /\ Ops(q) = <<"publish", "reconnect">>
           /\ NPublish(q) = 1

C4_Witness ==
    \E r \in Reqs :
        /\ Len(req[r].results) = 2
        /\ req[r].results[1] # <<>>
        /\ req[r].results[2] # <<>>
        /\ Returned(req[r])

\* C5: first publish fails, reconnect succeeds, second publish fails:
\* update returns the second publish's error, not the first's, and no
\* message, after exactly one reconnect and two publishes.
C5_RetryFails ==
    \A r \in Reqs :
        LET q == req[r] IN
        (/\ Len(q.results) = 3
         /\ q.results[1] # <<>> /\ q.results[2] = <<>> /\ q.results[3] # <<>>)
        => /\ q.ret = <<[msg |-> <<>>, err |-> q.results[3]]>>
           /\ q.ret[1].err # q.results[1]
           /\ Ops(q) = <<"publish", "reconnect", "publish">>
           /\ NReconnect(q) = 1 /\ NPublish(q) = 2

C5_Witness ==
    \E r \in Reqs :
        /\ Len(req[r].results) = 3
        /\ req[r].results[1] # <<>>
        /\ req[r].results[2] = <<>>
        /\ req[r].results[3] # <<>>
        /\ Returned(req[r])

\* C6: the first publish succeeds: update returns the message at once,
\* after one publish and no reconnect.
C6_FirstPublishSucceeds ==
    \A r \in Reqs :
        LET q == req[r] IN
        (Len(q.results) >= 1 /\ q.results[1] = <<>>)
        => /\ q.ret = <<[msg |-> q.msg, err |-> <<>>]>>
           /\ q.msg # <<>>
           /\ Ops(q) = <<"publish">>
           /\ NPublish(q) = 1 /\ NReconnect(q) = 0

C6_Witness ==
    \E r \in Reqs :
        /\ Len(req[r].results) = 1
        /\ req[r].results[1] = <<>>
        /\ Returned(req[r])

\* the Reconnect of q has returned an error / has returned nil
ReconnectFailed(q) ==
    \E i \in 1..Len(q.results) : q.calls[i].op = "reconnect" /\ q.results[i] # <<>>
ReconnectSucceeded(q) ==
    \E i \in 1..Len(q.results) : q.calls[i].op = "reconnect" /\ q.results[i] = <<>>
\* the publish made after the Reconnect of q has returned an error
RetryFailed(q) ==
    \E i \in 2..Len(q.results) : q.calls[i].op = "publish" /\ q.results[i] # <<>>
\* update has returned a publish error to the handler of q
PublishErrorSurfaced(q) ==
    Returned(q) /\ q.ret[1].err # <<>> /\ q.ret[1].err[1].kind = "publish"

\* C7, as stated: update returns a publish error only if both the reconnect
\* and the retried publish failed.
C7_Original ==
    \A r \in Reqs :
        PublishErrorSurfaced(req[r]) => ReconnectFailed(req[r]) /\ RetryFailed(req[r])

\* C7, amended: update returns a publish error only if the reconnect
\* succeeded and the retried publish failed, and it is then the retried
\* publish's error; if the reconnect fails it returns the reconnect's error,
\* and if the retried publish succeeds it returns no error.
C7_PublishErrorSurfacedOnlyAfterRetry ==
    \A r \in Reqs :
        LET q == req[r] IN
        Returned(q) =>
            /\ PublishErrorSurfaced(q) =>
                   /\ ReconnectSucceeded(q) /\ RetryFailed(q)
                   /\ q.ret[1].err = q.results[Len(q.results)]
                   /\ Len(q.results) = 3
            /\ ReconnectFailed(q) =>
                   q.ret[1].err # <<>> /\ q.ret[1].err[1].kind = "reconnect"
            /\ (q.results[Len(q.results)] = <<>>) => q.ret[1].err = <<>>

C7_Witness ==
    \E r \in Reqs : PublishErrorSurfaced(req[r]) /\ ReconnectSucceeded(req[r])

\* getState accepts s
Recognized(s) ==
    ToLower(s) \in {S_submitted, S_running, S_completed, S_succeeded, S_failed}
\* the request of q fails validation: its body does not decode, or its
\* State is not a recognized state
Invalid(q) == ~q.body.ok \/ ~Recognized(CharsField(q.body.State))
\* the response of q is 400 with one JSON object holding an error
Answered400(q) ==
    /\ q.resp.status = 400
    /\ Len(q.resp.body) = 1
    /\ q.resp.body[1].error # <<>>
    /\ q.resp.body[1].message = <<>>

\* C8: on both endpoints a request that fails validation is answered 400
\* with an error body and makes no call on the publisher, and every message
\* published carries a validated state.
C8_ValidationBeforePublish ==
    \A r \in Reqs :
        LET q == req[r] IN
        q.pc # "none" =>
            /\ Invalid(q) => q.calls = <<>> /\ q.pc = "done" /\ Answered400(q)
            /\ \A i \in 1..Len(q.calls) :
                   q.calls[i].op = "publish" =>
                       q.calls[i].msg # <<>> /\ q.calls[i].msg[1].State \in JobStates

\* A single update with an unrecognized state and a batch update with a
\* malformed body have both been rejected.
C8_Witness ==
    \E r, p \in Reqs :
        /\ req[r].ep = "single" /\ req[r].body.ok /\ req[r].body.State # <<>>
        /\ Invalid(req[r]) /\ Answered400(req[r])
        /\ req[p].ep = "batch" /\ ~req[p].body.ok /\ Answered400(req[p])

\* the body of q is a JSON object that lacks a key of the target structure
MissingField(q) ==
    /\ q.body.ok
    /\ \/ q.body.Hostname = <<>>
       \/ q.body.Message = <<>>
       \/ q.body.State = <<>>
       \/ q.ep = "batch" /\ q.body.job_uuid = <<>>

\* C9, as stated: a request whose body lacks a field of the target
\* structure is rejected with 400 and makes no call on the publisher.
C9_Original ==
    \A r \in Reqs :
        (req[r].pc # "none" /\ MissingField(req[r]))
        => req[r].calls = <<>> /\ req[r].resp.status = 400

\* C9, amended: a missing field is no decode error. A body without State is
\* rejected with 400 as the unknown job state "", with no call on the
\* publisher; a body with a recognized State that lacks Hostname, Message or
\* job_uuid is accepted, and the message handed to the publisher carries the
\* empty string for each absent field.
C9_MissingFieldsDecodeAsEmpty ==
    \A r \in Reqs :
        LET q == req[r] IN
        (q.pc # "none" /\ q.body.ok) =>
            /\ q.body.State = <<>> =>
                   /\ q.calls = <<>>
                   /\ q.resp = [status |-> 400,
                                body |-> <<ErrorJSON(UnknownStateErr(<<>>))>>]
            /\ (q.body.State # <<>> /\ Recognized(q.body.State[1])) =>
                   /\ q.calls # <<>>
                   /\ q.calls[1].op = "publish"
                   /\ q.calls[1].msg # <<>>
                   /\ LET m == q.calls[1].msg[1] IN
                      /\ m.Sender = (IF q.body.Hostname = <<>> THEN ""
                                     ELSE q.body.Hostname[1])
                      /\ m.Message = (IF q.body.Message = <<>> THEN ""
                                      ELSE q.body.Message[1])
                      /\ m.InvocationID =
                             (IF q.ep = "single" THEN q.uuid
                              ELSE IF q.body.job_uuid = <<>> THEN ""
                              ELSE q.body.job_uuid[1])

\* A batch update without job_uuid, Hostname and Message has been published
\* with empty fields.
C9_Witness ==
    \E r \in Reqs :
        /\ req[r].ep = "batch" /\ req[r].body.ok
        /\ req[r].body.job_uuid = <<>>
        /\ req[r].body.Hostname = <<>>
        /\ req[r].body.Message = <<>>
        /\ req[r].calls # <<>>
        /\ req[r].calls[1].msg[1].InvocationID = ""
        /\ req[r].calls[1].msg[1].Sender = ""

\* update has returned an error to the handler of q
UpdateFailed(q) == Returned(q) /\ q.ret[1].err # <<>>

\* C10, as stated: when update fails, what the two handlers do differs: one
\* ends the process and the other does not.
C10_Original ==
    \A r \in Reqs :
        UpdateFailed(req[r]) =>
            postUpdateReturn(req[r], req[r].ret[1]).exit
                # postBatchStatusReturn(req[r], req[r].ret[1]).exit

\* C10, amended: when update fails, both handlers answer 400 with the error
\* and end the process, after which no request is served.
C10_BothEndpointsTerminate ==
    /\ [](\A r \in Reqs :
            UpdateFailed(req[r]) =>
                /\ req[r].ep \in {"single", "batch"}
                /\ req[r].pc = "fatal"
                /\ req[r].resp = [status |-> 400,
                                  body |-> <<ErrorJSON(req[r].ret[1].err[1])>>]
                /\ mainPc = "exited")
    /\ [][mainPc # "exited"]_vars

\* The single-update handler has ended the process while a batch update
\* was in flight.
C10_Witness ==
    \E r, p \in Reqs :
        /\ req[r].ep = "single" /\ UpdateFailed(req[r]) /\ mainPc = "exited"
        /\ req[p].ep = "batch" /\ InFlight(req[p]) # "none"

\* C11: no publish is attempted on a connection on which a call has failed
\* until a Reconnect has succeeded: every step that makes a publish call
\* makes it on a connection not known to have failed.
C11_NoPublishOnFailedConnection ==
    [][\A r \in Reqs :
          NPublish(req'[r]) > NPublish(req[r]) => ~connFailed']_vars

\* the characters that differ from the lower-case character c by case only
FoldsOf ==
    [c \in {Lower[k] : k \in 1..Len(Lower)} |->
        {c} \cup {Upper[j] : j \in {k \in 1..Len(Upper) : Lower[k] = c}}]
Folds(c) == FoldsOf[c]
\* s is the lower-case word w up to the case of its letters
EqFold(s, w) == Len(s) = Len(w) /\ \A i \in 1..Len(s) : s[i] \in Folds(w[i])
\* the canonical state a state string stands for: <<state>>, or <<>> if none
Normal(s) ==
    IF EqFold(s, S_submitted) THEN <<SubmittedState>>
    ELSE IF EqFold(s, S_running) THEN <<RunningState>>
    ELSE IF EqFold(s, S_completed) \/ EqFold(s, S_succeeded) THEN <<SucceededState>>
    ELSE IF EqFold(s, S_failed) THEN <<FailedState>>
    ELSE <<>>
\* the State string of q's body ("" if absent)
StateOf(q) == IF q.body.State = <<>> THEN <<>> ELSE q.body.State[1]
\* the message a valid request q stands for
MessageOf(q) ==
    [InvocationID |-> IF q.ep = "single" THEN q.uuid
                      ELSE IF q.body.job_uuid = <<>> THEN "" ELSE q.body.job_uuid[1],
     State   |-> Normal(StateOf(q))[1],
     Message |-> IF q.body.Message = <<>> THEN "" ELSE q.body.Message[1],
     Sender  |-> IF q.body.Hostname = <<>> THEN "" ELSE q.body.Hostname[1]]

\* C12: every publish call made for a valid request carries the request's
\* job id, normalized state, hostname and message, the retried publish sends
\* the same message as the first, and a success response echoes it.
C12_PublishedMessage ==
    \A r \in Reqs :
        LET q == req[r] IN
        (q.pc # "none" /\ q.body.ok /\ Normal(StateOf(q)) # <<>>) =>
            /\ q.calls # <<>>
            /\ \A i \in 1..Len(q.calls) :
                   q.calls[i].op = "publish" => q.calls[i].msg = <<MessageOf(q)>>
            /\ (Returned(q) /\ q.ret[1].err = <<>>) =>
                   /\ q.ret[1].msg = <<MessageOf(q)>>
                   /\ q.resp = [status |-> 200,
                                body |-> <<MessageJSON(<<MessageOf(q)>>)>>]

\* A request with every field has been published twice and answered.
C12_Witness ==
    \E r \in Reqs :
        /\ req[r].body.ok
        /\ <<>> \notin {req[r].body.Hostname, req[r].body.Message}
        /\ NPublish(req[r]) = 2
        /\ req[r].calls[3].msg = req[r].calls[1].msg
        /\ req[r].resp.status = 200

\* the error the handler of a finished request q has to report (<<>>: none)
FailureOf(q) ==
    IF ~q.body.ok THEN <<DecodeErr>>
    ELSE IF Normal(StateOf(q)) = <<>> THEN <<UnknownStateErr(StateOf(q))>>
    ELSE IF Returned(q) THEN q.ret[1].err
    ELSE <<>>

\* C13: every failure path of both handlers (decode error, unknown state,
\* failed update) writes status 400 and one JSON object holding the error
\* and nothing else; the success path writes the update message with status
\* 200 and no error; no other status is ever written.
C13_ResponseShape ==
    \A r \in Reqs :
        LET q == req[r] IN
        q.pc \in {"done", "fatal"} =>
            /\ q.ep \in {"single", "batch"}
            /\ FailureOf(q) # <<>> =>
                   q.resp = [status |-> 400, body |-> <<ErrorJSON(FailureOf(q)[1])>>]
            /\ FailureOf(q) = <<>> =>
                   /\ q.msg # <<>>
                   /\ q.resp = [status |-> 200, body |-> <<MessageJSON(q.msg)>>]

\* A request has been rejected for its state and a later one has been
\* answered 400 after a failed update.
C13_Witness ==
    \E r, p \in Reqs :
        /\ req[r].pc = "done" /\ req[r].body.ok /\ req[r].resp.status = 400
        /\ req[p].pc = "fatal" /\ req[p].resp.status = 400

\* C14: whenever the process has shut down after the publisher was created,
\* Close has been called on the publisher.
C14_CloseOnShutdown ==
    (mainPc = "exited" /\ publisher # "none") => publisher = "closed"

\* C15: the server serves, and a handler runs, only with a publisher that
\* was created: when loading the configuration or creating the publisher
\* fails the process ends without ever listening.
C15_NoServingWithoutPublisher ==
    /\ []((mainPc = "serving" \/ \E r \in Reqs : req[r].pc # "none")
            => publisher = "open")
    /\ [][(mainPc # "serving" /\ mainPc' = "serving")
            => mainPc = "connected" /\ publisher = "open"]_vars
    /\ [][(mainPc \in {"start", "configured"} /\ publisher' = "none")
            => mainPc' \in {"configured", "exited"}]_vars

\* Startup has failed: the process has ended with no publisher and has
\* handled no request.
C15_Witness ==
    /\ mainPc = "exited"
    /\ publisher = "none"
    /\ \A r \in Reqs : req[r].pc = "none"

(***************************************************************************)
(* getState alone                                                          *)
(***************************************************************************)
\* every way of writing the lower-case word w in upper- and lower-case
\* letters
RECURSIVE Variants(_)
Variants(w) ==
    IF w = <<>> THEN {<<>>}
    ELSE {<<c>> \o t : c \in Folds(Head(w)), t \in Variants(Tail(w))}

\* strings that are no state: the empty string, other words, and words one
\* character away from a state
OtherStrings ==
    {<<>>,
     <<"p","e","n","d","i","n","g">>,
     <<"P","E","N","D","I","N","G">>,
     <<"r","u","n","n","i","n">>,
     <<"r","u","n","n","i","n","g","s">>,
     <<" ","r","u","n","n","i","n","g">>,
     <<"R","u","n","n","i","n","g"," ">>,
     <<"c","o","m","p","l","e","t","e">>,
     <<"s","u","c","c","e","s","s">>,
     <<"s","u","c","c","e","e","d">>,
     <<"f","a","i","l">>,
     <<"F","a","i","l","u","r","e">>,
     <<"s","u","b","m","i","t">>,
     <<"d","o","n","e">>}

\* The strings handed to getState.
StateStrings ==
    Variants(S_submitted) \cup Variants(S_running) \cup Variants(S_completed)
        \cup Variants(S_succeeded) \cup Variants(S_failed) \cup OtherStrings

InitState ==
    /\ mainPc = "start"
    /\ req = [r \in Reqs |-> NoRequest]
    /\ publisher = "none"
    /\ connFailed = FALSE
    /\ mapped \in {[in |-> s, out |-> <<>>] : s \in StateStrings}

\* getState(mapped.in) is called and returns
ApplyGetState ==
    /\ mapped.out = <<>>
    /\ mapped' = [mapped EXCEPT !.out = <<getState(mapped.in)>>]
    /\ UNCHANGED <<mainPc, req, publisher, connFailed>>

SpecState == InitState /\ [][ApplyGetState]_vars

\* C16: getState is total and case-insensitive: it maps submitted to
\* Submitted, running to Running, completed and succeeded to Succeeded and
\* failed to Failed, whatever the case of the letters, with no error; for
\* every other string, the empty one included, it returns no state and an
\* unknown-state error that carries the string as it was given.
C16_StateMapper ==
    mapped.out # <<>> =>
        LET res == mapped.out[1]
            n   == Normal(mapped.in)
        IN /\ n # <<>> => res = [state |-> n[1], err |-> <<>>]
           /\ n = <<>> =>
                  res = [state |-> "", err |-> <<UnknownStateErr(mapped.in)>>]
           /\ (res.err = <<>>) <=> (res.state \in JobStates)

\* COMPLETED has been mapped to Succeeded.
C16_Witness ==
    /\ mapped.out # <<>>
    /\ mapped.in = <<"C","O","M","P","L","E","T","E","D">>
    /\ mapped.out[1].state = SucceededState

\* C17: if every call of PublishJobUpdate and Reconnect returns, an update
\* that has called the publisher returns (or the process has ended under
\* it): update neither loops nor waits.
C17_UpdateReturns ==
    \A r \in LiveReqs :
        (InFlight(req[r]) # "none") ~> (Returned(req[r]) \/ mainPc = "exited")

\* One update has returned after its first publish and another after its
\* second.
C17_Witness ==
    \E r, p \in LiveReqs :
        /\ Returned(req[r]) /\ Len(req[r].calls) = 1
        /\ Returned(req[p]) /\ Len(req[p].calls) = 3
\* the publish attempts of q that have returned nil
PublishSucceeded(q) ==
    {i \in 1..Len(q.results) : q.calls[i].op = "publish" /\ q.results[i] = <<>>}

\* C18: update returns a message exactly when one of its publish attempts
\* succeeded and that attempt was its last call; when it returns an error no
\* publish attempt succeeded; it returns a message or an error, never both
\* and never neither.
C18_UpdateResult ==
    \A r \in Reqs :
        Returned(req[r]) =>
            LET q == req[r]
                t == q.ret[1]
            IN /\ Len(q.results) = Len(q.calls)
               /\ (t.msg # <<>>) <=> (PublishSucceeded(q) = {Len(q.calls)})
               /\ (t.err # <<>>) => (PublishSucceeded(q) = {})
               /\ (t.msg # <<>>) <=> (t.err = <<>>)

\* One update has returned its message after a retry and another has
\* returned the error of its second publish.
C18_Witness ==
    \E r, p \in Reqs :
        /\ Returned(req[r]) /\ req[r].ret[1].msg # <<>> /\ NPublish(req[r]) = 2
        /\ Returned(req[p]) /\ req[p].ret[1].err # <<>> /\ NPublish(req[p]) = 2
\* the success body (the encoded message) has been written to resp
SuccessBodyWritten(resp) ==
    \E i \in 1..Len(resp.body) : resp.body[i].error = <<>>

\* C19: in either handler, once update has returned an error the success
\* body is never written to that response and the process has terminated;
\* from then on no request changes: none that arrives is handled and those
\* in flight get no response.
C19_NothingAfterFailedUpdate ==
    /\ [](\A r \in Reqs :
            UpdateFailed(req[r]) =>
                ~SuccessBodyWritten(req[r].resp) /\ mainPc = "exited")
    /\ [][(\E r \in Reqs : UpdateFailed(req[r])) => req' = req]_vars

\* The update of a batch request has failed while another request waits on
\* the publisher with nothing written to its response, and a further request
\* has not arrived.
C19_Witness ==
    \E r, p, n \in Reqs :
        /\ req[r].ep = "batch" /\ UpdateFailed(req[r])
        /\ InFlight(req[p]) # "none" /\ req[p].resp = NoResponse
        /\ req[n].pc = "none"
\* the calls of op made on the publisher by all requests
CallsOf(op) ==
    UNION {{<<r, i>> : i \in {j \in 1..Len(req[r].calls) :
                                 req[r].calls[j].op = op}} : r \in Reqs}
\* the requests whose update has started / whose first publish has failed
Started == {r \in Reqs : req[r].calls # <<>>}
FirstPublishFailed ==
    {r \in Reqs : req[r].results # <<>> /\ req[r].results[1] # <<>>}

\* C20: reconnects are not coalesced among concurrent updates: every update
\* whose first publish failed has made its own Reconnect call, so there are
\* as many Reconnect calls as such updates, and at most two publish calls
\* for each update started.
C20_ReconnectsNotCoalesced ==
    /\ \A r \in FirstPublishFailed : NReconnect(req[r]) = 1
    /\ Cardinality(CallsOf("reconnect")) = Cardinality(FirstPublishFailed)
    /\ Cardinality(CallsOf("publish")) <= 2 * Cardinality(Started)

\* Every request's first publish has failed and their Reconnect calls are
\* in flight together.
C20_Witness ==
    /\ \A r \in Reqs : InFlight(req[r]) = "reconnect"
    /\ Cardinality(CallsOf("reconnect")) = MaxReq

=============================================================================
